---- MODULE Spec2Model ----
(***************************************************************************)
(* Model of package logging (examples/logging/logger.go): a Logger wraps   *)
(* an slog.Logger and holds a pointer to an slog.LevelVar.  The LevelVar   *)
(* is created once by New and shared, by pointer, by every Logger that     *)
(* With and WithGroup derive.                                              *)
(*                                                                         *)
(* The heap is explicit: cells is the sequence of the LevelVars allocated  *)
(* so far and an address is an index into it.  A Logger value holds two    *)
(* references to a LevelVar: the field Level, which the setters write, and *)
(* the Level of the HandlerOptions its handler was built with, which the   *)
(* handler reads to decide whether a record is admitted.                   *)
(*                                                                         *)
(* A Go string that the code inspects character by character (the name     *)
(* given to SetLevelByName) is a sequence of one-character strings; a      *)
(* string the code only compares as a whole (a HandlerType) is a string.   *)
(***************************************************************************)
EXTENDS Integers, Sequences, FiniteSets, TLC

VARIABLES
    cells,      \* the heap of slog.LevelVar: cells[a] is the level held at address a
    loggers,    \* the Logger values created so far, in creation order
    made,       \* history: how loggers[h] was created (New and its argument, or the parent)
    lastSet,    \* history: lastSet[r] is the level of the latest Level.Set in the family of root r
    stderr,     \* the lines written to os.Stderr
    ret,        \* the latest completed call and what it returned
    threads     \* the goroutines of the concurrent scenario (empty otherwise)

vars == <<cells, loggers, made, lastSet, stderr, ret, threads>>

----------------------------------------------------------------------------
(* Bounds of the model. *)

\* Logger values ever created (New, With and WithGroup together), and how
\* many of them New creates.
MaxLoggers == 3
MaxFamilies == 1
\* SetLevelByCounter is called with every count in -MaxCount .. MaxCount.
MaxCount == 4
\* Goroutines calling SetLevel, and goroutines logging, in the concurrent scenario.
NumWriters == 2
NumReaders == 2

----------------------------------------------------------------------------
(* Levels: logger.go:13-22, the values of slog's predefined levels. *)

LevelError == 8
LevelWarn == 4
LevelInfo == 0
LevelDebug == -4

Levels == {LevelError, LevelWarn, LevelInfo, LevelDebug}

(* HandlerType: logger.go:24-32. *)
Console == "console"
JSON == "json"
Text == "text"

\* logger.go:39-46
IsValid(h) == h \in {Console, Text, JSON}

\* The handler types New is called with: the three supported ones, and
\* strings that are none of them (a wrong case and the empty string included).
HandlerInputs == {Console, Text, JSON, "bogus"}

----------------------------------------------------------------------------
(* Strings. *)

\* The characters of a Go string literal, for the names the code looks at
\* character by character.
RECURSIVE Join(_)
Join(cs) == IF cs = <<>> THEN "" ELSE Head(cs) \o Join(Tail(cs))

\* unicode.ToLower on the letters A-Z; every other character of the model's
\* alphabet is its own lower case.
UpperToLower ==
    [c \in {"A","B","C","D","E","F","G","H","I","J","K","L","M",
            "N","O","P","Q","R","S","T","U","V","W","X","Y","Z"} |->
        CASE c = "A" -> "a" [] c = "B" -> "b" [] c = "C" -> "c" [] c = "D" -> "d"
          [] c = "E" -> "e" [] c = "F" -> "f" [] c = "G" -> "g" [] c = "H" -> "h"
          [] c = "I" -> "i" [] c = "J" -> "j" [] c = "K" -> "k" [] c = "L" -> "l"
          [] c = "M" -> "m" [] c = "N" -> "n" [] c = "O" -> "o" [] c = "P" -> "p"
          [] c = "Q" -> "q" [] c = "R" -> "r" [] c = "S" -> "s" [] c = "T" -> "t"
          [] c = "U" -> "u" [] c = "V" -> "v" [] c = "W" -> "w" [] c = "X" -> "x"
          [] c = "Y" -> "y" [] c = "Z" -> "z"]

ToLowerRune(c) == IF c \in DOMAIN UpperToLower THEN UpperToLower[c] ELSE c

\* A comparison that forgets the case folding: the name as given.
ToLowerForgotten(s) == s

\* strings.ToLower, logger.go:103
ToLower(s) == [i \in 1..Len(s) |-> ToLowerRune(s[i])]

\* fmt's %q of a string of letters, digits and spaces: the string in double quotes.
Quote(s) == "\"" \o s \o "\""

----------------------------------------------------------------------------
(* slog.LevelVar: an atomic cell. *)

\* A store that is not atomic, observed half way: the low byte of the new
\* value below the other bytes of the old one.
StoreTorn(heap, a, v) ==
    [heap EXCEPT ![a] = (heap[a] - (heap[a] % 256)) + (v % 256)]

\* A store that treats the level as an adjustment of the current one.
StoreRelative(heap, a, v) == [heap EXCEPT ![a] = heap[a] + v]

\* LevelVar.Set: one atomic store of the whole value.
Store(heap, a, v) == [heap EXCEPT ![a] = v]

\* LevelVar.Level: one atomic load.
Load(heap, a) == heap[a]

\* No call completed yet.
NoCall == [op |-> "none", arg |-> <<>>, err |-> "", out |-> <<>>, rep |-> FALSE]

\* The record of a completed call: the operation, its argument, the error
\* it returned ("" for nil) and the records it wrote to the output.  rep
\* marks a SetLevel call that repeats the call just before it.
Call(op, arg, err, out) ==
    [op |-> op, arg |-> arg, err |-> err, out |-> out, rep |-> FALSE]

Handles == 1..Len(loggers)

----------------------------------------------------------------------------
(* The handler behind a Logger: slog.Logger is a handler plus nothing the  *)
(* model needs.  kind is the formatter, opts.Level the LevelVar the        *)
(* handler reads, ctx the attributes and groups bound so far.              *)

HandlerValue(kind, level, ctx) == [kind |-> kind, opts |-> [Level |-> level], ctx |-> ctx]

\* A LevelVar that starts at Error instead of at its zero value.
NewLevelVarError == LevelError

\* The zero slog.LevelVar that new(slog.LevelVar) returns holds level 0.
NewLevelVar == 0

\* A fallback to the text handler instead of the JSON handler.
NewHandlerTextFallback(handler, lvl) ==
    CASE handler = Console -> HandlerValue("console", lvl, <<>>)
      [] handler = JSON    -> HandlerValue("json", lvl, <<>>)
      [] OTHER             -> HandlerValue("text", lvl, <<>>)

\* logger.go:60-71: the handler New builds for a handler type; every handler
\* gets the same options, whose Level is the new LevelVar.
NewHandler(handler, lvl) ==
    CASE handler = Console -> HandlerValue("console", lvl, <<>>)
      [] handler = Text    -> HandlerValue("text", lvl, <<>>)
      [] handler = JSON    -> HandlerValue("json", lvl, <<>>)
      [] OTHER             -> HandlerValue("json", lvl, <<>>)

\* logger.go:68-69: what the default branch of New prints.
NewDiagnostic(handler) ==
    IF handler \in {Console, Text, JSON}
    THEN <<>>
    ELSE <<"warning: invalid handler type " \o Quote(handler) \o ", falling back to JSON\n">>

\* slog.Logger.With / WithGroup: a handler with the same options and one
\* more item of context.
HandlerWith(h, item) == [h EXCEPT !.ctx = Append(@, item)]

\* A derived Logger that gets a LevelVar of its own, holding a copy of the
\* parent's current level.
DerivedLevelCopied(l) ==
    [heap |-> Append(cells, Load(cells, l.Level)), Level |-> Len(cells) + 1]

\* logger.go:124-127 and 133-136: the Level of a derived Logger is the
\* parent's pointer; nothing is allocated.
DerivedLevel(l) == [heap |-> cells, Level |-> l.Level]

\* Admission with the comparison strict, and with it reversed.
EnabledStrict(h, level) == level > Load(cells, h.opts.Level)

EnabledReversed(h, level) == level <= Load(cells, h.opts.Level)

\* A handler admits a record when the record's level is at least the level
\* its options hold (slog.HandlerOptions.Level, set at logger.go:58).
Enabled(h, level) == level >= Load(cells, h.opts.Level)

\* The root of the family of handle h: the Logger that New returned.
RECURSIVE Root(_)
Root(h) == IF made[h].op = "New" THEN h ELSE Root(made[h].from)

Family(h) == {g \in Handles : Root(g) = Root(h)}

----------------------------------------------------------------------------
(* The setters. *)

\* logger.go:77-79: l.Level.Set(level)
LevelSet(h, level) ==
    /\ cells' = Store(cells, loggers[h].Level, level)
    /\ lastSet' = [lastSet EXCEPT ![Root(h)] = [set |-> TRUE, level |-> level]]

\* The staircase with its top step one count too high.
CounterLevelOffByOne(i) ==
    CASE i > 3 -> LevelDebug
      [] i = 2 -> LevelInfo
      [] i = 1 -> LevelWarn
      [] OTHER -> LevelError

\* logger.go:85-95
CounterLevel(i) ==
    CASE i >= 3 -> LevelDebug
      [] i = 2  -> LevelInfo
      [] i = 1  -> LevelWarn
      [] OTHER  -> LevelError

\* A lookup whose default branch selects Info instead of failing.
NameLevelLenient(name) ==
    LET lower == Join(ToLower(name)) IN
    CASE lower = "error"                  -> [ok |-> TRUE, level |-> LevelError]
      [] lower \in {"warn", "warning"}    -> [ok |-> TRUE, level |-> LevelWarn]
      [] lower = "debug"                  -> [ok |-> TRUE, level |-> LevelDebug]
      [] OTHER                            -> [ok |-> TRUE, level |-> LevelInfo]

\* logger.go:103-117: the level a name selects, if any.
NameLevel(name) ==
    LET lower == Join(ToLower(name)) IN
    CASE lower = "error"                  -> [ok |-> TRUE, level |-> LevelError]
      [] lower \in {"warn", "warning"}    -> [ok |-> TRUE, level |-> LevelWarn]
      [] lower = "info"                   -> [ok |-> TRUE, level |-> LevelInfo]
      [] lower = "debug"                  -> [ok |-> TRUE, level |-> LevelDebug]
      [] OTHER                            -> [ok |-> FALSE, level |-> 0]

\* logger.go:113-116
NameError(name) ==
    "invalid log level name " \o Quote(Join(name))
        \o ": must be one of error, warn, info, debug"

----------------------------------------------------------------------------
(* Inputs. *)

AttrArgs == {<<"k", "v">>}
GroupNames == {"g"}

Chars(w) ==
    CASE w = "error"   -> <<"e","r","r","o","r">>
      [] w = "warn"    -> <<"w","a","r","n">>
      [] w = "warning" -> <<"w","a","r","n","i","n","g">>
      [] w = "info"    -> <<"i","n","f","o">>
      [] w = "debug"   -> <<"d","e","b","u","g">>

ValidWords == {"error", "warn", "warning", "info", "debug"}

\* Both cases of a lower-case letter.
Cases(c) == {c} \cup {u \in DOMAIN UpperToLower : UpperToLower[u] = c}

\* Every upper/lower-case spelling of a sequence of lower-case letters.
RECURSIVE SpellingsOf(_)
SpellingsOf(cs) ==
    IF cs = <<>>
    THEN {<<>>}
    ELSE {<<c>> \o s : c \in Cases(Head(cs)), s \in SpellingsOf(Tail(cs))}

Spellings(w) == SpellingsOf(Chars(w))

\* Names that are no spelling of a valid word: other words, prefixes and
\* extensions of valid words, padded words, the empty string.
OtherNames ==
    { <<>>,
      <<"v","e","r","b","o","s","e">>, <<"V","E","R","B","O","S","E">>,
      <<"t","r","a","c","e">>, <<"f","a","t","a","l">>,
      <<"e","r","r">>, <<"E","R","R","O","R","S">>, <<"e","r","r","o">>,
      <<"w","a","r","n","i","n">>, <<"W","a","r","n","i","n","g","s">>,
      <<"w","a","r","n","i">>, <<"i","n","f">>, <<"I","N","F","O","S">>,
      <<"d","e","b","u">>, <<"D","e","b","u","g","g">>,
      <<" ","i","n","f","o">>, <<"i","n","f","o"," ">>, <<"d","e","b","u","g","\n">>,
      <<"0">>, <<"3">>, <<"-","4">>, <<"i","n","f","0">>, <<"w","a","r","n","-","i","n","g">> }

AllNames == UNION {Spellings(w) : w \in ValidWords} \cup OtherNames

\* The names the family scenario uses: some spellings and some other names.
SomeNames == { <<"D","e","b","u","g">>, <<"v","e","r","b","o","s","e">> }

SomeCounts == {1}

----------------------------------------------------------------------------
(* The operations, called one at a time. *)

\* logger.go:56-74
New(handler) ==
    /\ Len(loggers) < MaxLoggers
    /\ Len(cells) < MaxFamilies
    /\ LET lvl == Len(cells) + 1
           h   == NewHandler(handler, lvl)
       IN  /\ cells' = Append(cells, NewLevelVar)
           /\ stderr' = stderr \o NewDiagnostic(handler)
           /\ loggers' = Append(loggers, [Logger |-> h, Level |-> lvl])
           /\ made' = Append(made, [op |-> "New", arg |-> handler, from |-> 0])
           /\ lastSet' = Append(lastSet, [set |-> FALSE, level |-> 0])
           /\ ret' = Call("New", handler, "", <<>>)
    /\ UNCHANGED threads

\* A derived Logger: the handler with one more item of context, and the
\* Level that DerivedLevel gives.
Derive(op, h, item) ==
    /\ Len(loggers) < MaxLoggers
    /\ LET l == loggers[h]
           d == DerivedLevel(l)
       IN  /\ cells' = d.heap
           /\ loggers' = Append(loggers, [Logger |-> HandlerWith(l.Logger, item),
                                          Level  |-> d.Level])
           /\ made' = Append(made, [op |-> op, arg |-> item, from |-> h])
           /\ lastSet' = Append(lastSet, [set |-> FALSE, level |-> 0])
           /\ ret' = Call(op, item, "", <<>>)
    /\ UNCHANGED <<stderr, threads>>

\* logger.go:123-128
With(h, args) == Derive("With", h, [attrs |-> args])

\* logger.go:132-137
WithGroup(h, name) == Derive("WithGroup", h, [group |-> name])

\* logger.go:77-79
SetLevel(h, level) ==
    /\ LevelSet(h, level)
    /\ ret' = [Call("SetLevel", level, "", <<>>) EXCEPT
                  !.rep = (ret.op = "SetLevel" /\ ret.arg = level)]
    /\ UNCHANGED <<loggers, made, stderr, threads>>

\* logger.go:84-97
SetLevelByCounter(h, i) ==
    /\ LevelSet(h, CounterLevel(i))
    /\ ret' = Call("SetLevelByCounter", i, "", <<>>)
    /\ UNCHANGED <<loggers, made, stderr, threads>>

\* logger.go:102-119
SetLevelByName(h, name) ==
    /\ LET r == NameLevel(name) IN
           IF r.ok
           THEN /\ LevelSet(h, r.level)
                /\ ret' = Call("SetLevelByName", name, "", <<>>)
           ELSE /\ UNCHANGED <<cells, lastSet>>
                /\ ret' = Call("SetLevelByName", name, NameError(name), <<>>)
    /\ UNCHANGED <<loggers, made, stderr, threads>>

\* A record logged through a Logger (the methods of the embedded
\* *slog.Logger, logger.go:50): the handler is asked whether the level is
\* enabled, and formats the record if it is.
Log(h, level) ==
    /\ LET hd == loggers[h].Logger IN
           ret' = Call("Log", level, "",
                       IF Enabled(hd, level)
                       THEN <<[format |-> hd.kind, level |-> level, ctx |-> hd.ctx]>>
                       ELSE <<>>)
    /\ UNCHANGED <<cells, loggers, made, lastSet, stderr, threads>>

----------------------------------------------------------------------------
(* The family scenario: any sequence of constructions, derivations, setter *)
(* calls and records, through any handle.                                  *)

Init ==
    /\ cells = <<>>
    /\ loggers = <<>>
    /\ made = <<>>
    /\ lastSet = <<>>
    /\ stderr = <<>>
    /\ ret = NoCall
    /\ threads = <<>>

Next ==
    \/ \E handler \in HandlerInputs : New(handler)
    \/ \E h \in Handles, args \in AttrArgs : With(h, args)
    \/ \E h \in Handles, name \in GroupNames : WithGroup(h, name)
    \/ \E h \in Handles, level \in Levels : SetLevel(h, level)
    \/ \E h \in Handles, i \in SomeCounts : SetLevelByCounter(h, i)
    \/ \E h \in Handles, name \in SomeNames : SetLevelByName(h, name)
    \/ \E h \in Handles, level \in Levels : Log(h, level)

Spec == Init /\ [][Next]_vars

----------------------------------------------------------------------------
(* The setter scenario: one family of three handles (the root, a Logger    *)
(* derived from it, a Logger derived from that one), and then any sequence *)
(* of setter calls and records through any of them, with every name and    *)
(* every count of the input sets.                                          *)

\* The state after l1 := New(out, handler); l2 := l1.With("k", "v");
\* l3 := l2.WithGroup("g").
FamilyOfThree(handler) ==
    LET l1 == [Logger |-> NewHandler(handler, 1), Level |-> 1]
        l2 == [Logger |-> HandlerWith(l1.Logger, [attrs |-> <<"k", "v">>]), Level |-> l1.Level]
        l3 == [Logger |-> HandlerWith(l2.Logger, [group |-> "g"]), Level |-> l2.Level]
    IN  /\ cells = <<NewLevelVar>>
        /\ loggers = <<l1, l2, l3>>
        /\ made = << [op |-> "New", arg |-> handler, from |-> 0],
                     [op |-> "With", arg |-> [attrs |-> <<"k", "v">>], from |-> 1],
                     [op |-> "WithGroup", arg |-> [group |-> "g"], from |-> 2] >>
        /\ lastSet = [h \in 1..3 |-> [set |-> FALSE, level |-> 0]]
        /\ stderr = NewDiagnostic(handler)
        /\ ret = Call("WithGroup", [group |-> "g"], "", <<>>)

InitSetters ==
    /\ \E handler \in HandlerInputs : FamilyOfThree(handler)
    /\ threads = <<>>

Counts == (0 - MaxCount)..MaxCount

NextSetters ==
    \/ \E h \in Handles, level \in Levels : SetLevel(h, level)
    \/ \E h \in Handles, i \in Counts : SetLevelByCounter(h, i)
    \/ \E h \in Handles, name \in AllNames : SetLevelByName(h, name)
    \/ \E h \in Handles, level \in Levels : Log(h, level)

SpecSetters == InitSetters /\ [][NextSetters]_vars

----------------------------------------------------------------------------
(* The concurrent scenario: goroutines share the family of three handles.  *)
(* NumWriters of them each call SetLevel once, with values no two of them  *)
(* share; NumReaders of them log records, again and again.  A SetLevel     *)
(* call touches shared memory once (the store of LevelVar.Set) and so does *)
(* a logged record (the load of LevelVar.Level); the Logger values are     *)
(* never written after their creation.  A call is therefore one step, and  *)
(* the interleavings of the goroutines are the orders of these steps.      *)

Writers == 1..NumWriters
Readers == (NumWriters + 1)..(NumWriters + NumReaders)

InitConc ==
    /\ FamilyOfThree(Text)
    /\ threads = [t \in Writers \cup Readers |-> [pc |-> "idle", arg |-> 0, seen |-> <<>>]]

\* Goroutine t calls l.SetLevel(level) through handle h.
WriterSetLevel(t, h, level) ==
    /\ threads[t].pc = "idle"
    /\ \A w \in Writers : threads[w].pc = "done" => threads[w].arg # level
    /\ LevelSet(h, level)
    /\ threads' = [threads EXCEPT ![t] = [pc |-> "done", arg |-> level, seen |-> <<>>]]
    /\ UNCHANGED <<loggers, made, stderr, ret>>

\* Goroutine t logs a record through handle h: the handler loads the level
\* to decide on it.
ReaderLog(t, h) ==
    /\ threads' = [threads EXCEPT ![t].seen = <<Load(cells, loggers[h].Logger.opts.Level)>>]
    /\ UNCHANGED <<cells, loggers, made, lastSet, stderr, ret>>

NextConc ==
    \/ \E t \in Writers, h \in Handles, level \in Levels : WriterSetLevel(t, h, level)
    \/ \E t \in Readers, h \in Handles : ReaderLog(t, h)

SpecConc == InitConc /\ [][NextConc]_vars

----------------------------------------------------------------------------
(* What a caller observes through a handle. *)

\* l.Level.Level(): the level read through the handle's own pointer.
Threshold(h) == Load(cells, loggers[h].Level)

\* The level the handle's handler reads when a record is logged.
HandlerThreshold(h) == Load(cells, loggers[h].Logger.opts.Level)

\* The levels of the records that are admitted through the handle.
Admitted(h) == {level \in Levels : Enabled(loggers[h].Logger, level)}

\* The position of a level in the ordering Error < Warn < Info < Debug.
Rank(level) ==
    CASE level = LevelError -> 0
      [] level = LevelWarn  -> 1
      [] level = LevelInfo  -> 2
      [] level = LevelDebug -> 3
      [] OTHER              -> 4

\* Handle h was derived from a handle that was itself derived.
DerivedTwice(h) ==
    /\ made[h].op # "New"
    /\ made[made[h].from].op # "New"

----------------------------------------------------------------------------
\* C1: shared-reference law.  All handles of a family, however derived,
\* observe one threshold, through their own Level pointer and through their
\* handler alike; once a setter has succeeded through any handle of the
\* family, that threshold is the level the latest successful setter stored.
SharedReference ==
    \A h \in Handles :
        /\ \A g \in Family(h) :
              /\ Threshold(g) = Threshold(h)
              /\ HandlerThreshold(g) = Threshold(h)
              /\ Admitted(g) = Admitted(h)
        /\ lastSet[Root(h)].set =>
              /\ Threshold(h) = lastSet[Root(h)].level
              /\ HandlerThreshold(h) = lastSet[Root(h)].level

\* A family with a handle derived from a derived handle, whose threshold a
\* setter call by name has just moved away from the initial one.
SharedReferenceWitness ==
    /\ ret.op = "SetLevelByName"
    /\ ret.err = ""
    /\ \E h \in Handles :
          /\ DerivedTwice(h)
          /\ lastSet[Root(h)].set
          /\ HandlerThreshold(h) = LevelDebug
          /\ Threshold(Root(h)) = LevelDebug

----------------------------------------------------------------------------
\* C10: until the first successful setter call in a family, its threshold
\* is Info for every handler type, through every handle: Error, Warn and
\* Info records are admitted and Debug records are suppressed.  With,
\* WithGroup and failed SetLevelByName calls do not change that.
InitialInfo ==
    \A h \in Handles :
        ~lastSet[Root(h)].set =>
            /\ Threshold(h) = LevelInfo
            /\ HandlerThreshold(h) = LevelInfo
            /\ Admitted(h) = {LevelError, LevelWarn, LevelInfo}

\* A family of three handles in which the only setter call so far failed.
InitialInfoWitness ==
    /\ Len(loggers) = 3
    /\ DerivedTwice(3)
    /\ ret.op = "SetLevelByName"
    /\ ret.err # ""
    /\ ~lastSet[1].set
    /\ made[1].arg = "bogus"

----------------------------------------------------------------------------
\* C7: New never fails.  "console", "text" and "json" select the console,
\* text and JSON formatter and print nothing; any other handler type
\* selects the JSON formatter and prints one line naming the value to
\* standard error.  Every handle of the family keeps the formatter of its
\* root, whatever calls follow.
FormatterFor(handler) ==
    CASE handler = "console" -> "console"
      [] handler = "text"    -> "text"
      [] handler = "json"    -> "json"
      [] OTHER               -> "json"

\* The lines the first n creations must have left on standard error.
RECURSIVE DiagnosticsOf(_)
DiagnosticsOf(n) ==
    IF n = 0
    THEN <<>>
    ELSE DiagnosticsOf(n - 1) \o
         ( IF made[n].op = "New" /\ made[n].arg \notin {"console", "text", "json"}
           THEN <<"warning: invalid handler type \"" \o made[n].arg
                      \o "\", falling back to JSON\n">>
           ELSE <<>> )

HandlerChoice ==
    /\ \A h \in Handles : loggers[h].Logger.kind = FormatterFor(made[Root(h)].arg)
    /\ stderr = DiagnosticsOf(Len(made))
    /\ ret.op = "New" => ret.err = "" /\ Len(loggers) > 0
    /\ ret.op = "Log" /\ ret.out # <<>> =>
          \E h \in Handles : ret.out[1].format = FormatterFor(made[Root(h)].arg)

\* A family built with an invalid handler type, after a derivation and a
\* setter call, logging a record with the JSON formatter.
HandlerChoiceWitness ==
    /\ Len(loggers) >= 2
    /\ made[1].arg = "bogus"
    /\ stderr = <<"warning: invalid handler type \"bogus\", falling back to JSON\n">>
    /\ lastSet[1].set
    /\ ret.op = "Log"
    /\ ret.out # <<>>
    /\ ret.out[1].format = "json"
    /\ ret.out[1].ctx # <<>>

----------------------------------------------------------------------------
(* Names, compared without regard to case. *)

\* name is a spelling of the lower-case word cs, in any mix of cases.
SameIgnoringCase(name, cs) ==
    /\ Len(name) = Len(cs)
    /\ \A i \in 1..Len(cs) : name[i] = cs[i] \/ name[i] \in Cases(cs[i])

IsLevelName(name) == \E w \in ValidWords : SameIgnoringCase(name, Chars(w))

WordLevel(w) ==
    CASE w = "error"   -> LevelError
      [] w = "warn"    -> LevelWarn
      [] w = "warning" -> LevelWarn
      [] w = "info"    -> LevelInfo
      [] w = "debug"   -> LevelDebug

----------------------------------------------------------------------------
\* C2: SetLevelByName with a name that is, case ignored, none of "error",
\* "warn", "warning", "info", "debug" returns an error whose text quotes
\* the name as given, and changes the threshold of no handle.
InvalidNameRejected ==
    [][ (ret'.op = "SetLevelByName" /\ ~IsLevelName(ret'.arg)) =>
            /\ ret'.err = "invalid log level name \"" \o Join(ret'.arg)
                              \o "\": must be one of error, warn, info, debug"
            /\ cells' = cells
            /\ \A h \in Handles :
                  /\ Threshold(h)' = Threshold(h)
                  /\ HandlerThreshold(h)' = HandlerThreshold(h)
                  /\ Admitted(h)' = Admitted(h) ]_vars

\* "verbose" rejected while the threshold is Debug, set before the call.
InvalidNameRejectedWitness ==
    /\ ret.op = "SetLevelByName"
    /\ ret.arg = <<"v","e","r","b","o","s","e">>
    /\ ret.err # ""
    /\ lastSet[1].set
    /\ \A h \in Handles : Threshold(h) = LevelDebug

----------------------------------------------------------------------------
----------------------------------------------------------------------------
\* C4: SetLevelByCounter never fails and leaves every handle of the family
\* at Error for a count <= 0, Warn for 1, Info for 2, Debug for a count >= 3.
CounterStaircase ==
    ret.op = "SetLevelByCounter" =>
        /\ ret.err = ""
        /\ \A h \in Handles :
              /\ ret.arg <= 0 => Threshold(h) = LevelError /\ HandlerThreshold(h) = LevelError
              /\ ret.arg = 1  => Threshold(h) = LevelWarn  /\ HandlerThreshold(h) = LevelWarn
              /\ ret.arg = 2  => Threshold(h) = LevelInfo  /\ HandlerThreshold(h) = LevelInfo
              /\ ret.arg >= 3 => Threshold(h) = LevelDebug /\ HandlerThreshold(h) = LevelDebug

\* A negative count has set the threshold to Error.
CounterStaircaseWitness ==
    /\ ret.op = "SetLevelByCounter"
    /\ ret.arg < 0
    /\ \A h \in Handles : HandlerThreshold(h) = LevelError

----------------------------------------------------------------------------
\* C5, as stated: a record is admitted exactly when its level is >= the
\* threshold in the ordering Error < Warn < Info < Debug.
AdmitsAtOrAboveThreshold ==
    ret.op = "Log" =>
        \A h \in Handles :
            (ret.out # <<>>) <=> (Rank(ret.arg) >= Rank(Threshold(h)))

\* C5, amended: a record is admitted exactly when its level is <= the
\* threshold in the ordering Error < Warn < Info < Debug, that is, when it
\* is at least as severe as the threshold; every other record is suppressed.
AdmitsAtOrBelowThreshold ==
    ret.op = "Log" =>
        \A h \in Handles :
            (ret.out # <<>>) <=> (Rank(ret.arg) <= Rank(Threshold(h)))

\* A Debug record suppressed while the threshold is Warn.
AdmitsAtOrBelowThresholdWitness ==
    /\ ret.op = "Log"
    /\ ret.arg = LevelDebug
    /\ ret.out = <<>>
    /\ \A h \in Handles : Threshold(h) = LevelWarn

----------------------------------------------------------------------------
\* C6: in every state reached from New, through every handle, the threshold
\* is one of the four levels and admits exactly the records at least as
\* important as itself: an Error record under every threshold, a Debug
\* record only under the threshold Debug.
ThresholdAdmits ==
    /\ \A h \in Handles :
          /\ Threshold(h) \in Levels
          /\ LevelError \in Admitted(h)
          /\ LevelDebug \in Admitted(h) <=> Threshold(h) = LevelDebug
          /\ Admitted(h) = {level \in Levels : Rank(level) <= Rank(Threshold(h))}
    /\ ret.op = "Log" /\ ret.arg = LevelError => ret.out # <<>>
    /\ ret.op = "Log" /\ ret.arg = LevelDebug /\ ret.out # <<>> =>
          \E h \in Handles : Threshold(h) = LevelDebug

\* A Debug record admitted after a setter has moved the threshold to Debug.
ThresholdAdmitsWitness ==
    /\ ret.op = "Log"
    /\ ret.arg = LevelDebug
    /\ ret.out # <<>>
    /\ \E h \in Handles : DerivedTwice(h) /\ lastSet[Root(h)].set /\ Threshold(h) = LevelDebug

----------------------------------------------------------------------------
\* C8: whatever the interleaving of the goroutines that call SetLevel and
\* of those that log, the level a logging goroutine reads is the initial
\* one or the value of a SetLevel call that has been made: never a mix.
NoTornRead ==
    \A t \in DOMAIN threads :
        threads[t].seen # <<>> =>
            threads[t].seen[1] \in
                {LevelInfo} \cup {threads[w].arg : w \in {x \in Writers : threads[x].pc = "done"}}

\* Every writer has stored its value, and a reader has read Debug.
NoTornReadWitness ==
    /\ threads # <<>>
    /\ \A w \in Writers : threads[w].pc = "done"
    /\ \E w \in Writers : threads[w].arg = LevelError
    /\ \E t \in Readers : threads[t].seen = <<LevelDebug>>

----------------------------------------------------------------------------
\* C9: a SetLevel(X) call that follows a SetLevel(X) call leaves the cell
\* at X and changes the admission of no record through any handle.
SetLevelIdempotent ==
    [][ (ret'.op = "SetLevel" /\ ret'.rep) =>
            /\ cells' = cells
            /\ \A h \in Handles :
                  /\ Threshold(h)' = ret'.arg
                  /\ HandlerThreshold(h)' = ret'.arg
                  /\ Admitted(h)' = Admitted(h) ]_vars

\* SetLevel(Debug) called twice in a row.
SetLevelIdempotentWitness ==
    /\ ret.op = "SetLevel"
    /\ ret.rep
    /\ ret.arg = LevelDebug
    /\ \A h \in Handles : Threshold(h) = LevelDebug

====
